---- MODULE Spec2Model ----
(***************************************************************************)
(* State-machine model of the CaptchaGenerator class of                    *)
(* captcha-svg-generator (CaptchaGenerator.js, lib/random.js,              *)
(* lib/colors.js, lib/presets.js) together with the in-memory store of     *)
(* the demo script.                                                        *)
(*                                                                         *)
(* JavaScript values are tagged records [t, v]; strings are sequences of   *)
(* one-character strings, so that concatenation, indexing and join are     *)
(* computed as the code computes them.                                     *)
(***************************************************************************)
EXTENDS Integers, Sequences, FiniteSets, TLC

VARIABLES
    defaults,      \* this.defaults
    options,       \* this.options
    chars,         \* this.chars, the final character pool
    captchaKey,    \* this.captchaKey
    captchaText,   \* this.captchaText
    calls,         \* generate() invocations in flight, by call slot
    memoryStore,   \* the demo's Map behind setFn / getFn
    last,          \* the operation that completed last, with its outcome
    issued         \* what the most recently completed generate() returned

vars == <<defaults, options, chars, captchaKey, captchaText, calls,
          memoryStore, last, issued>>

-----------------------------------------------------------------------------
(* Bounds of the model *)

\* number of characters kept from each of the three character-class tables
PresetLen == 1
\* Math.random() is drawn from { n / RandDen : n \in 0 .. RandDen - 1 }
RandDen == 64

-----------------------------------------------------------------------------
(* JavaScript values *)

Null == [t |-> "null", v |-> <<>>]
Undefined == [t |-> "undefined", v |-> <<>>]
Str(s) == [t |-> "string", v |-> s]
Bool(b) == [t |-> "boolean", v |-> IF b THEN <<"true">> ELSE <<"false">>]
Fn(name) == [t |-> "function", v |-> <<name>>]

\* ToBoolean: null, undefined, "" and false are falsy
Truthy(x) ==
    CASE x.t = "null" -> FALSE
      [] x.t = "undefined" -> FALSE
      [] x.t = "string" -> x.v # <<>>
      [] x.t = "boolean" -> x.v = <<"true">>
      [] OTHER -> TRUE

\* typeof x === "function"
IsFunction(x) == x.t = "function"

\* a && b
And(a, b) == IF Truthy(a) THEN b ELSE a

\* a || b
Or(a, b) == IF Truthy(a) THEN a ELSE b

\* String.prototype.includes for a one-character needle
Includes(s, ch) == \E i \in 1 .. Len(s) : s[i] = ch

\* array[i] with a zero-based index: undefined outside the array
At(arr, i) == IF i >= 0 /\ i < Len(arr) THEN Str(<<arr[i + 1]>>) ELSE Undefined

\* Array.prototype.join(""): undefined and null elements contribute ""
RECURSIVE Join(_)
Join(arr) ==
    IF arr = <<>> THEN <<>>
    ELSE (IF Head(arr).t \in {"undefined", "null"} THEN <<>> ELSE Head(arr).v)
         \o Join(Tail(arr))

\* { ...d, ...o }: the keys of o override those of d
Merge(d, o) ==
    [k \in DOMAIN d \cup DOMAIN o |-> IF k \in DOMAIN o THEN o[k] ELSE d[k]]

-----------------------------------------------------------------------------
(* JavaScript numbers: exact fractions n / d in lowest terms with d >= 0;     *)
(* d = 0 stands for Infinity (n = 1), -Infinity (n = -1) and NaN (n = 0).     *)
(* Rounding of floating-point arithmetic is not represented.                  *)

Abs(i) == IF i < 0 THEN 0 - i ELSE i
Sign(i) == IF i < 0 THEN 0 - 1 ELSE IF i > 0 THEN 1 ELSE 0

RECURSIVE Gcd(_, _)
Gcd(a, b) == IF b = 0 THEN a ELSE Gcd(b, a % b)

Frac(n, d) ==
    IF d = 0 THEN [n |-> Sign(n), d |-> 0]
    ELSE LET g == Gcd(Abs(n), Abs(d))
         IN  [n |-> (Sign(d) * n) \div g, d |-> Abs(d) \div g]

Num(i) == [n |-> i, d |-> 1]
NaN == [n |-> 0, d |-> 0]
IsNaN(a) == a.n = 0 /\ a.d = 0

\* a + b
Plus(a, b) ==
    IF IsNaN(a) \/ IsNaN(b) THEN NaN
    ELSE IF a.d = 0 /\ b.d = 0 THEN (IF a.n = b.n THEN a ELSE NaN)
    ELSE Frac(a.n * b.d + b.n * a.d, a.d * b.d)

\* a * b
Mul(a, b) == IF IsNaN(a) \/ IsNaN(b) THEN NaN ELSE Frac(a.n * b.n, a.d * b.d)

\* a - b
Minus(a, b) == Plus(a, Mul(Num(0 - 1), b))

\* a / b (the zeros of the model are all +0)
Over(a, b) ==
    IF IsNaN(a) \/ IsNaN(b) THEN NaN
    ELSE Mul(a, IF b.n < 0 THEN [n |-> 0 - b.d, d |-> 0 - b.n]
                  ELSE [n |-> b.d, d |-> b.n])

\* a < b, a <= b: false when either is NaN
Less(a, b) == ~IsNaN(a) /\ ~IsNaN(b) /\ a.n * b.d < b.n * a.d
LessEq(a, b) == ~IsNaN(a) /\ ~IsNaN(b) /\ (a = b \/ Less(a, b))

\* Math.min(a, b)
MathMin_max(a, b) == IF IsNaN(a) \/ IsNaN(b) THEN NaN ELSE IF Less(a, b) THEN b ELSE a
MathMin(a, b) == IF IsNaN(a) \/ IsNaN(b) THEN NaN ELSE IF Less(a, b) THEN a ELSE b

\* the sum of a sequence of numbers, from 0: reduce((sum, w) => sum + w, 0)
RECURSIVE Sum(_)
Sum(ws) == IF ws = <<>> THEN Num(0) ELSE Plus(Sum(SubSeq(ws, 1, Len(ws) - 1)), ws[Len(ws)])

-----------------------------------------------------------------------------
(* lib/random.js, lib/colors.js *)

\* Math.floor(Math.random() * (max - min) + min) with Math.random() = n / RandDen
randomInt_maxInclusive(min, max, n) == min + ((n * (max - min + 1)) \div RandDen)
randomInt(min, max, n) == min + ((n * (max - min)) \div RandDen)

\* every value randomInt(min, max) can return
RandomInts(min, max) == { randomInt(min, max, n) : n \in 0 .. RandDen - 1 }

\* `rgb(r,g,b)` from three draws
randomColor(n1, n2, n3) ==
    <<"rgb(", randomInt(0, 255, n1), ",", randomInt(0, 255, n2), ",",
      randomInt(0, 255, n3), ")">>

-----------------------------------------------------------------------------
(* lib/presets.js *)

UpperTable == <<"A", "B", "C", "D", "E", "F", "G", "H", "I", "J", "K", "L", "M",
                "N", "O", "P", "Q", "R", "S", "T", "U", "V", "W", "X", "Y", "Z">>
LowerTable == <<"a", "b", "c", "d", "e", "f", "g", "h", "i", "j", "k", "l", "m",
                "n", "o", "p", "q", "r", "s", "t", "u", "v", "w", "x", "y", "z">>
NumberTable == <<"0", "1", "2", "3", "4", "5", "6", "7", "8", "9">>

\* the tables, cut to their first PresetLen characters
upper == SubSeq(UpperTable, 1, PresetLen)
lower == SubSeq(LowerTable, 1, PresetLen)
numbers == SubSeq(NumberTable, 1, PresetLen)

buildCharPreset(type) ==
    CASE type = "upper" -> upper
      [] type = "lower" -> lower
      [] type = "numbers" -> numbers
      [] type = "letters" -> upper \o lower
      [] type = "upper-alphanum" -> upper \o numbers
      [] type = "lower-alphanum" -> lower \o numbers
      [] OTHER -> upper \o lower \o numbers

-----------------------------------------------------------------------------
(* The font collaborator (opentype.js) *)

\* join(__dirname, "../fonts/LiberationSerif-wlR9.ttf")
DefaultFont == "LiberationSerif-wlR9.ttf"
\* a caller-supplied font file without glyphs for the digits
LettersFont == "CustomFont1.ttf"

\* the characters a font file has a glyph for
FontGlyphs(file) ==
    LET letters == { UpperTable[i] : i \in 1 .. Len(UpperTable) }
                   \cup { LowerTable[i] : i \in 1 .. Len(LowerTable) }
        digits == { NumberTable[i] : i \in 1 .. Len(NumberTable) }
    IN  IF file = LettersFont THEN letters ELSE letters \cup digits

\* font.charToGlyph(ch): the glyph of ch, or the font's .notdef glyph (index 0)
\* when the font has none; it never throws
charToGlyph(file, ch) ==
    IF ch \in FontGlyphs(file)
    THEN [font |-> file, name |-> ch, notdef |-> FALSE]
    ELSE [font |-> file, name |-> ".notdef", notdef |-> TRUE]

\* font.unitsPerEm
unitsPerEm(file) == IF file = LettersFont THEN 1000 ELSE 2048

\* glyph.advanceWidth, in font units: capitals are wider than small letters and
\* digits, and the two fonts differ in the advance of every character
advanceWidth(glyph) ==
    LET capital == \E i \in 1 .. Len(UpperTable) : UpperTable[i] = glyph.name
    IN  IF glyph.font = LettersFont
        THEN (IF glyph.notdef THEN 500 ELSE IF capital THEN 1000 ELSE 750)
        ELSE (IF capital THEN 1536 ELSE 1024)

\* font.charToGlyph(ch).advanceWidth * (fontSize / font.unitsPerEm)
glyphWidth(file, ch, fontSize) ==
    Mul(Num(advanceWidth(charToGlyph(file, ch))), Over(Num(fontSize), Num(unitsPerEm(file))))

-----------------------------------------------------------------------------
(* CaptchaGenerator: constructor *)

Defaults(fontsFamily, fontDraw, noiseDraw) ==
    [ size |-> 6,
      ignoreChars |-> <<>>,
      noise |-> 2,
      background |-> <<"#ffffff">>,
      width |-> 150,
      height |-> 50,
      fontSize |-> 36,
      presetType |-> "all",
      fontFiles |-> IF Len(fontsFamily) > 0 THEN fontsFamily ELSE <<DefaultFont>>,
      fontColour |-> randomColor(fontDraw[1], fontDraw[2], fontDraw[3]),
      noiseColour |-> randomColor(noiseDraw[1], noiseDraw[2], noiseDraw[3]),
      noiseWidth |-> 2,
      messy |-> TRUE ]

\* the filter predicate of the character pool
KeepChar_notNegated(ignoreChars, ch) == Includes(ignoreChars, ch)
KeepChar(ignoreChars, ch) == ~Includes(ignoreChars, ch)

\* buildCharPreset(presetType).split("").filter(...)
CharPool(opts) ==
    SelectSeq(buildCharPreset(opts.presetType),
              LAMBDA ch : KeepChar(opts.ignoreChars, ch))

\* a call slot in which no generate() is running; while one is, overtaken tells
\* whether another generate() call has completed since this one started
Idle == [pc |-> "idle", text |-> <<>>, status |-> <<>>, overtaken |-> FALSE]
\* no operation has completed yet
NoOp == [op |-> "none"]
\* history of the challenge: gen = some generate() has returned; key, text =
\* what the latest one returned; storeCalled = storeCaptcha has been called
\* with a function since then and no entry of that key has expired
NotIssued == [gen |-> FALSE, key |-> Null, text |-> Null, storeCalled |-> FALSE]

\* new CaptchaGenerator(o, fontsFamily), with the draws of the two randomColor() calls
Constructor(o, fontsFamily, fontDraw, noiseDraw) ==
    /\ defaults = Defaults(fontsFamily, fontDraw, noiseDraw)
    /\ options = Merge(defaults, o)
    /\ chars = CharPool(options)
    /\ captchaKey = Null
    /\ captchaText = Null

\* the draws of Math.random() the constructor's colours are made from
ColourDraws == { <<0, 0, 0>>, <<RandDen - 1, RandDen \div 2, 0>> }

\* a construction: the options object, the fontsFamily array and the draws of
\* the noise colour
Config(o, fontsFamily, noiseDraw) ==
    [o |-> o, fontsFamily |-> fontsFamily, noiseDraw |-> noiseDraw]

\* the instance after construction, with the call slots that may run generate()
InitWith(Configs, Slots) ==
    /\ \E cfg \in Configs :
           Constructor(cfg.o, cfg.fontsFamily, <<0, 0, 0>>, cfg.noiseDraw)
    /\ calls = [c \in Slots |-> Idle]
    /\ memoryStore = [k \in {} |-> Null]
    /\ last = NoOp
    /\ issued = NotIssued

-----------------------------------------------------------------------------
(* CaptchaGenerator.generateKey *)

\* const chars = "ABC...XYZabc...xyz0123456789"
KeyTable == UpperTable \o LowerTable \o NumberTable

\* Number.prototype.toString(36)
Base36Digits == NumberTable \o LowerTable
RECURSIVE ToBase36(_)
ToBase36(n) ==
    IF n < Len(Base36Digits) THEN <<Base36Digits[n + 1]>>
    ELSE ToBase36(n \div Len(Base36Digits)) \o <<Base36Digits[(n % Len(Base36Digits)) + 1]>>

\* `length` random characters of the table, then the timestamp in base 36
generateKey(length, draws, now) ==
    [i \in 1 .. length |-> KeyTable[randomInt(0, Len(KeyTable), draws[i]) + 1]]
    \o ToBase36(now)

\* CaptchaGenerator.generateKey(16)
KeyLength == 16

\* the draws of Math.random() keys are made from (all lowest, or all highest),
\* and the values of Date.now()
KeyDraws == { [i \in 1 .. KeyLength |-> 0], [i \in 1 .. KeyLength |-> RandDen - 1] }
Times == {36}

\* `captcha:${key}`
Namespaced(key) == <<"captcha:">> \o key

-----------------------------------------------------------------------------
(* CaptchaGenerator.generate *)

\* the text drawn from the pool: one randomInt(0, chars.length) per character
Texts ==
    LET picks == { At(chars, i) : i \in RandomInts(0, Len(chars)) }
    IN  { Join(arr) : arr \in [1 .. options.size -> picks] }

\* what generate() assigns to the instance before its await: nothing
AssignedBeforeAwait_text(text) == captchaText' = Str(text) /\ UNCHANGED captchaKey
AssignedBeforeAwait(text) == UNCHANGED <<captchaKey, captchaText>>

\* generate() up to its await: the text is drawn and every font load is started
GenerateStart(c) ==
    /\ calls[c].pc = "idle"
    /\ \E text \in Texts :
           /\ calls' = [calls EXCEPT ![c] =
                           [pc |-> "loading", text |-> text,
                            status |-> [i \in 1 .. Len(options.fontFiles) |-> "pending"],
                            overtaken |-> FALSE]]
           /\ AssignedBeforeAwait(text)
    /\ UNCHANGED <<defaults, options, chars, memoryStore, last, issued>>

\* opentype.load(file) resolves
FontResolve(c, i) ==
    /\ calls[c].pc = "loading"
    /\ i \in DOMAIN calls[c].status
    /\ calls[c].status[i] = "pending"
    /\ calls' = [calls EXCEPT ![c].status[i] = "resolved"]
    /\ UNCHANGED <<defaults, options, chars, captchaKey, captchaText,
                   memoryStore, last, issued>>

\* opentype.load(file) rejects
FontReject(c, i) ==
    /\ calls[c].pc = "loading"
    /\ i \in DOMAIN calls[c].status
    /\ calls[c].status[i] = "pending"
    /\ calls' = [calls EXCEPT ![c].status[i] = "rejected"]
    /\ UNCHANGED <<defaults, options, chars, captchaKey, captchaText,
                   memoryStore, last, issued>>

\* Promise.all: fulfilled when every load has resolved, rejected by the first
\* load that rejects
AllFulfilled_any(status) == \E i \in DOMAIN status : status[i] = "resolved"
AllFulfilled(status) == \A i \in DOMAIN status : status[i] = "resolved"
AnyRejected(status) == \E i \in DOMAIN status : status[i] = "rejected"

\* the await throws: generate() rejects, nothing is laid out or assigned
GenerateFail(c) ==
    /\ calls[c].pc = "loading"
    /\ AnyRejected(calls[c].status)
    /\ calls' = [calls EXCEPT ![c] = Idle]
    /\ last' = [op |-> "generate", outcome |-> "throw", error |-> "font load",
                status |-> calls[c].status, value |-> Undefined]
    /\ UNCHANGED <<defaults, options, chars, captchaKey, captchaText,
                   memoryStore, issued>>

\* one <path> of the text: d is glyph.getPath(x, y, fontSize) (the rounding of
\* toPathData(2) is not represented), the fill, and the transform attribute
TextPath(file, ch, x, y, fontSize, transform) ==
    [char |-> ch, glyph |-> charToGlyph(file, ch), x |-> x, y |-> y,
     fontSize |-> fontSize, fill |-> options.fontColour, transform |-> transform]

\* const y = height / 2 + fontSize / 3
BaseLine == Plus(Over(Num(options.height), Num(2)), Over(Num(options.fontSize), Num(3)))

\* const gap = 3; the 10 of (width - 10)
Gap == 3
Margin == 10

\* straight mode, Math.min(1, (width - 10) / totalWidth)
StraightScale_noMargin(totalWidth) ==
    MathMin(Num(1), Over(Num(options.width), totalWidth))
StraightScale(totalWidth) ==
    MathMin(Num(1), Over(Num(options.width - Margin), totalWidth))

\* the x of glyph i, and of the pen after the last glyph for i = Len(steps) + 1:
\* the start plus the steps taken so far
PenX(xStart, steps, i) == Plus(xStart, Sum(SubSeq(steps, 1, i - 1)))

\* straight mode: every glyph from loadedFonts[0], gap apart, shrunk to the box
StraightLayout(text) ==
    LET font == options.fontFiles[1]
        widths == [i \in 1 .. Len(text) |-> glyphWidth(font, text[i], options.fontSize)]
        naturalWidth == Sum(widths)
        totalWidth == Plus(naturalWidth, Num(Gap * (Len(text) - 1)))
        scale == StraightScale(totalWidth)
        xStart == Over(Minus(Num(options.width), Mul(totalWidth, scale)), Num(2))
        advances == [i \in 1 .. Len(text) |-> Mul(widths[i], scale)]
        steps == [i \in 1 .. Len(text) |-> Plus(advances[i], Mul(Num(Gap), scale))]
    IN  [ text |-> [i \in 1 .. Len(text) |->
                       TextPath(font, text[i], PenX(xStart, steps, i), BaseLine,
                                Mul(Num(options.fontSize), scale), Null)],
          measured |-> [i \in 1 .. Len(text) |-> font],
          widths |-> widths, totalWidth |-> totalWidth, scale |-> scale,
          xStart |-> xStart, advances |-> advances,
          xEnd |-> PenX(xStart, steps, Len(text) + 1) ]

\* the draws of Math.random() the rotations of one text are made from, one
\* randomInt(-25, 25) per character: all lowest, or highest and middle in turn
RotateDraws(text) ==
    { [i \in 1 .. Len(text) |-> 0],
      [i \in 1 .. Len(text) |-> IF i % 2 = 1 THEN RandDen - 1 ELSE RandDen \div 2] }

\* messy mode, the font of the emission pass for character i: a new
\* loadedFonts[randomInt(0, n)]
EmissionFont_asMeasured(measure, emit, i) == options.fontFiles[measure[i] + 1]
EmissionFont(measure, emit, i) == options.fontFiles[emit[i] + 1]

\* messy mode, Math.min(1, width / totalWidth)
MessyScale_unscaled(totalWidth) == Num(1)
MessyScale(totalWidth) == MathMin(Num(1), Over(Num(options.width), totalWidth))

\* messy mode with the draws of the two passes: widths measured with the fonts
\* of the first pass, glyphs emitted with the fonts of the second
MessyLayout(text, measure, emit, rot) ==
    LET measured == [i \in 1 .. Len(text) |-> options.fontFiles[measure[i] + 1]]
        fontSizes == options.fontSize
        glyphWidths == [i \in 1 .. Len(text) |->
                           glyphWidth(measured[i], text[i], options.fontSize)]
        totalWidth == Sum(glyphWidths)
        scale == MessyScale(totalWidth)
        xStart == Over(Minus(Num(options.width), Mul(totalWidth, scale)), Num(2))
        font == [i \in 1 .. Len(text) |-> EmissionFont(measure, emit, i)]
        charWidth == [i \in 1 .. Len(text) |->
                         Mul(glyphWidth(font[i], text[i], fontSizes), scale)]
        x(i) == PenX(xStart, charWidth, i)
        charX(i) == Plus(x(i), Over(charWidth[i], Num(2)))
    IN  [ text |-> [i \in 1 .. Len(text) |->
                       TextPath(font[i], text[i], x(i), BaseLine,
                                Mul(Num(fontSizes), scale),
                                [rotate |-> randomInt(0 - 25, 25, rot[i]),
                                 cx |-> charX(i), cy |-> BaseLine])],
          measured |-> measured,
          widths |-> glyphWidths, totalWidth |-> totalWidth, scale |-> scale,
          xStart |-> xStart, advances |-> charWidth,
          xEnd |-> x(Len(text) + 1) ]

\* the indexes randomInt(0, loadedFonts.length) can give to each character
FontPicks(text) == [1 .. Len(text) -> RandomInts(0, Len(options.fontFiles))]

MessyLayouts(text) ==
    { MessyLayout(text, measure, emit, rot) :
        measure \in FontPicks(text), emit \in FontPicks(text),
        rot \in RotateDraws(text) }

\* the layout of the text: its paths (text) and the locals they were placed with
Layouts(text) ==
    IF ~options.messy THEN {StraightLayout(text)} ELSE MessyLayouts(text)

\* the draws of Math.random() the y coordinates of one noise line are made
\* from, in the order of the calls: all lowest, or highest and middle in turn
YDraws ==
    { [k \in 1 .. 1 + 2 * 3 |-> 0],
      [k \in 1 .. 1 + 2 * 3 |-> IF k % 2 = 1 THEN RandDen - 1 ELSE RandDen \div 2] }

\* the first k segments of one line: " Q midX midY, endX endY" each, with
\* midX = prevX + width / segments, endX = midX + width / segments, prevX = endX
RECURSIVE NoiseCurves(_, _, _)
NoiseCurves(k, segments, draws) ==
    IF k = 0 THEN <<>>
    ELSE LET before == NoiseCurves(k - 1, segments, draws)
             prevX == IF k = 1 THEN Num(0) ELSE before[k - 1].endX
             midX == Plus(prevX, Over(Num(options.width), Num(segments)))
             midY == randomInt(0, options.height, draws[2 * k])
             endX == Plus(midX, Over(Num(options.width), Num(segments)))
             endY == randomInt(0, options.height, draws[2 * k + 1])
         IN  Append(before, [midX |-> midX, midY |-> midY, endX |-> endX, endY |-> endY])

\* generateWavyNoise(count): one stroke path per line, segs[i] = randomInt(2, 4),
\* d = "M0 startY" followed by the segments
generateWavyNoise(count, segs, ys) ==
    [i \in 1 .. count |->
        [stroke |-> options.noiseColour, fill |-> "none",
         strokeWidth |-> defaults.noiseWidth, segments |-> segs[i],
         startX |-> Num(0), startY |-> randomInt(0, options.height, ys[i][1]),
         curves |-> NoiseCurves(segs[i], segs[i], ys[i])]]

\* generate() after its await: layout, noise, svg, key, the two assignments
GenerateLayout(c) ==
    /\ calls[c].pc = "loading"
    /\ AllFulfilled(calls[c].status)
    /\ \E layout \in Layouts(calls[c].text),
          segs \in [1 .. options.noise -> RandomInts(2, 4)],
          ys \in [1 .. options.noise -> YDraws],
          draws \in KeyDraws,
          now \in Times :
         LET noiseSVG == generateWavyNoise(options.noise, segs, ys)
             svg == [width |-> options.width, height |-> options.height,
                     background |-> options.background,
                     noise |-> noiseSVG, text |-> layout.text]
             key == Str(generateKey(KeyLength, draws, now))
             text == Str(calls[c].text)
         IN  /\ captchaKey' = key
             /\ captchaText' = text
             /\ last' = [op |-> "generate", outcome |-> "return", error |-> "",
                         status |-> calls[c].status,
                         value |-> [key |-> key, text |-> text, data |-> svg],
                         layout |-> layout, overtaken |-> calls[c].overtaken]
             /\ issued' = [gen |-> TRUE, key |-> key, text |-> text, storeCalled |-> FALSE]
    /\ calls' = [d \in DOMAIN calls |->
                    IF d = c THEN Idle
                    ELSE IF calls[d].pc = "loading"
                    THEN [calls[d] EXCEPT !.overtaken = TRUE] ELSE calls[d]]
    /\ UNCHANGED <<defaults, options, chars, memoryStore>>

-----------------------------------------------------------------------------
(* The caller's store: the demo's memoryStore with setFn / getFn, and the     *)
(* README's getFn                                                             *)

\* Map.prototype.get: undefined for a key the map does not hold
MapGet(m, k) == IF k \in DOMAIN m THEN m[k] ELSE Undefined

\* Map.prototype.set
MapSet(m, k, v) == [x \in DOMAIN m \cup {k} |-> IF x = k THEN v ELSE m[x]]

\* Map.prototype.delete
MapDelete(m, k) == [x \in DOMAIN m \ {k} |-> m[x]]

\* what the caller passes as setFn / getFn: a function, or something that is none
SetFns == {Fn("setFn"), Undefined}
GetFns == {Fn("getFn"), Fn("cacheGet"), Undefined}
Ttls == {60}

\* getFn of the demo: memoryStore.get(key) || null; of the README: cache.get(key)
Fetch(getFn, m, k) ==
    IF getFn = Fn("getFn") THEN Or(MapGet(m, k), Null) ELSE MapGet(m, k)

\* setTimeout(() => memoryStore.delete(key), ttlSeconds * 1000) fires
Expire(k) ==
    /\ k \in DOMAIN memoryStore
    /\ memoryStore' = MapDelete(memoryStore, k)
    /\ issued' = IF issued.gen /\ k = Namespaced(issued.key.v)
                 THEN [issued EXCEPT !.storeCalled = FALSE] ELSE issued
    /\ UNCHANGED <<defaults, options, chars, captchaKey, captchaText, calls, last>>

-----------------------------------------------------------------------------
(* CaptchaGenerator.storeCaptcha, CaptchaGenerator.verifyCaptcha *)

\* the second guard of storeCaptcha: !this.captchaKey || !this.captchaText
NothingGenerated_unchecked(key, text) == FALSE
NothingGenerated(key, text) == ~Truthy(key) \/ ~Truthy(text)

StoreCaptcha(ttl, setFn) ==
    /\ IF ~IsFunction(setFn)
       THEN /\ last' = [op |-> "storeCaptcha", outcome |-> "throw",
                        error |-> "setFn must be a function",
                        setFn |-> setFn, ttl |-> ttl, invoked |-> <<>>]
            /\ UNCHANGED memoryStore
       ELSE IF NothingGenerated(captchaKey, captchaText)
       THEN /\ last' = [op |-> "storeCaptcha", outcome |-> "throw",
                        error |-> "No captcha generated yet.",
                        setFn |-> setFn, ttl |-> ttl, invoked |-> <<>>]
            /\ UNCHANGED memoryStore
       ELSE LET k == Namespaced(captchaKey.v)
            IN  /\ memoryStore' = MapSet(memoryStore, k, captchaText)
                /\ last' = [op |-> "storeCaptcha", outcome |-> "return", error |-> "",
                            setFn |-> setFn, ttl |-> ttl,
                            invoked |-> << <<k, captchaText, ttl>> >>]
    /\ issued' = IF IsFunction(setFn) /\ issued.gen
                 THEN [issued EXCEPT !.storeCalled = TRUE] ELSE issued
    /\ UNCHANGED <<defaults, options, chars, captchaKey, captchaText, calls>>

\* storedValue && storedValue === userInput
VerifyResult_storedAnswer(storedValue, userInput) ==
    And(storedValue, Bool(storedValue = captchaText))
VerifyResult(storedValue, userInput) == And(storedValue, Bool(storedValue = userInput))

VerifyCaptcha(userInput, key, getFn) ==
    /\ IF ~IsFunction(getFn)
       THEN last' = [op |-> "verifyCaptcha", outcome |-> "throw",
                     error |-> "getFn must be a function",
                     userInput |-> userInput, key |-> key, getFn |-> getFn,
                     fetched |-> Undefined, value |-> Undefined]
       ELSE LET storedValue == Fetch(getFn, memoryStore, Namespaced(key.v))
            IN  last' = [op |-> "verifyCaptcha", outcome |-> "return", error |-> "",
                         userInput |-> userInput, key |-> key, getFn |-> getFn,
                         fetched |-> storedValue,
                         value |-> VerifyResult(storedValue, userInput)]
    /\ UNCHANGED <<defaults, options, chars, captchaKey, captchaText, calls,
                   memoryStore, issued>>

\* every key generate() can issue, and the answers a user may type
AllKeys == { Str(generateKey(KeyLength, draws, now)) :
               draws \in KeyDraws, now \in Times }
UserInputs ==
    { Str(t) : t \in Texts } \cup { Str(t \o <<" ">>) : t \in Texts }
    \cup { Str(<<ch>>) : ch \in { lower[i] : i \in 1 .. Len(lower) } }
    \cup { Str(<<>>), Str(<<"W", "R", "O", "N", "G">>) }

-----------------------------------------------------------------------------
(* Specifications *)

\* the configurations of the store / verify life cycle
LifecycleConfigs ==
    { Config([size |-> 1, presetType |-> "numbers", noise |-> 0], <<>>, <<0, 0, 0>>),
      Config([size |-> 1, presetType |-> "numbers", ignoreChars |-> NumberTable,
              noise |-> 0], <<>>, <<0, 0, 0>>) }

Init == InitWith(LifecycleConfigs, {1})

GenerateNext ==
    \/ \E c \in DOMAIN calls : GenerateStart(c)
    \/ \E c \in DOMAIN calls, i \in 1 .. Len(options.fontFiles) : FontResolve(c, i)
    \/ \E c \in DOMAIN calls, i \in 1 .. Len(options.fontFiles) : FontReject(c, i)
    \/ \E c \in DOMAIN calls : GenerateFail(c)
    \/ \E c \in DOMAIN calls : GenerateLayout(c)

Next ==
    \/ GenerateNext
    \/ \E ttl \in Ttls, setFn \in SetFns : StoreCaptcha(ttl, setFn)
    \/ \E userInput \in UserInputs, key \in AllKeys, getFn \in GetFns :
           VerifyCaptcha(userInput, key, getFn)
    \/ \E k \in DOMAIN memoryStore : Expire(k)

Spec == Init /\ [][Next]_vars

\* two generate() calls of one instance that may overlap
OverlapConfigs ==
    { Config([size |-> 1, presetType |-> "letters", noise |-> 0, messy |-> FALSE],
             <<>>, <<0, 0, 0>>) }

InitOverlap == InitWith(OverlapConfigs, {1, 2})

SpecOverlap == InitOverlap /\ [][GenerateNext]_vars

\* the configurations of generate(): presets and ignore lists, noise, fonts
PresetNames == {"upper", "lower", "numbers", "letters", "upper-alphanum",
                "lower-alphanum", "all", "symbols"}
IgnoreLists == { <<>>, NumberTable, <<"0", "o", "O", "1", "I", "l">>, <<"A">>,
                 UpperTable \o LowerTable \o NumberTable }
Sizes == {1, 2}

TextConfigs ==
    { Config([presetType |-> p, ignoreChars |-> ig, size |-> n, noise |-> 0,
              messy |-> FALSE], <<>>, <<0, 0, 0>>) :
        p \in PresetNames, ig \in IgnoreLists, n \in Sizes }
    \cup { Config([ignoreChars |-> ig, size |-> 1, noise |-> 0], <<>>, <<0, 0, 0>>) :
             ig \in IgnoreLists }

NoiseConfigs ==
    { Config(Merge(Merge([size |-> 1, presetType |-> "numbers"], n), w), <<>>, nd) :
        n \in { [noise |-> 0], [noise |-> 1], [size |-> 1] },
        w \in { [size |-> 1], [noiseWidth |-> 1], [noiseWidht |-> 1],
                [noiseColour |-> <<"red">>, noiseWidth |-> 3] },
        nd \in ColourDraws }

FontConfigs ==
    { Config(Merge([size |-> 2, presetType |-> "upper-alphanum", noise |-> 0], m), ff,
             <<0, 0, 0>>) :
        m \in { [size |-> 1], [messy |-> FALSE] },
        ff \in { <<LettersFont>>, <<DefaultFont, LettersFont>>,
                 <<LettersFont, DefaultFont>> } }

\* the configurations of the layout: canvas widths narrower and wider than the
\* text, one and two fonts, both modes, and an empty character pool
Widths == {8, 40, 60, 150}

LayoutConfigs ==
    { Config([presetType |-> "letters", size |-> n, width |-> w, noise |-> 0,
              messy |-> m], <<>>, <<0, 0, 0>>) :
        n \in Sizes, w \in Widths, m \in BOOLEAN }
    \cup { Config([presetType |-> "upper", size |-> 2, width |-> w, noise |-> 0], ff,
                  <<0, 0, 0>>) :
             w \in Widths, ff \in { <<DefaultFont, LettersFont>> } }
    \cup { Config([presetType |-> "numbers", ignoreChars |-> NumberTable, size |-> 2,
                   noise |-> 1, messy |-> m], <<>>, <<0, 0, 0>>) :
             m \in BOOLEAN }
    \cup { Config([presetType |-> "letters", size |-> 0, noise |-> 1, messy |-> m],
                  <<>>, <<0, 0, 0>>) :
             m \in BOOLEAN }

InitGenerate ==
    InitWith(TextConfigs \cup NoiseConfigs \cup FontConfigs \cup LayoutConfigs, {1})

SpecGenerate == InitGenerate /\ [][GenerateNext]_vars

-----------------------------------------------------------------------------
(* Properties *)

Returned(op) == last.op = op /\ last.outcome = "return"
Threw(op) == last.op = op /\ last.outcome = "throw"

\* the preset expansion minus the ignored characters, as a set
ActiveAlphabet ==
    LET preset == buildCharPreset(options.presetType)
    IN  { preset[i] : i \in 1 .. Len(preset) }
        \ { options.ignoreChars[j] : j \in 1 .. Len(options.ignoreChars) }

\* C1: verifyCaptcha with a callable fetchFn returns the boolean true exactly
\* when the fetched value equals userInput, and the boolean false, without
\* throwing, when the fetched value is absent or differs.
C1_VerifyReturnsBoolean ==
    (last.op = "verifyCaptcha" /\ IsFunction(last.getFn))
        => /\ last.outcome = "return"
           /\ last.value = Bool(last.fetched = last.userInput)

\* C2: once generate() has returned {key, text} and storeCaptcha(ttl, store) has
\* been called with a store that keeps what it is given, verifyCaptcha(w, key,
\* fetch) before the entry expires is true for w = text and false for every
\* other w.
C2_RoundTrip ==
    (last.op = "verifyCaptcha" /\ IsFunction(last.getFn)
       /\ issued.gen /\ issued.storeCalled /\ last.key = issued.key)
        => /\ last.outcome = "return"
           /\ last.value = Bool(last.userInput = issued.text)

\* C3: after a completed generate(), storeCaptcha(ttl, storeFn) with a callable
\* storeFn invokes it exactly once, with ('captcha:' + K, T, ttl) of the most
\* recently completed generate().
C3_StoresLatestChallenge ==
    (last.op = "storeCaptcha" /\ IsFunction(last.setFn) /\ issued.gen)
        => last.invoked = << <<Namespaced(issued.key.v), issued.text, last.ttl>> >>

\* C4: storeCaptcha before any completed generate(), or with a non-callable
\* storeFn, fails with a precondition error and does not invoke storeFn.
C4_StorePrecondition ==
    /\ (last.op = "storeCaptcha" /\ (~issued.gen \/ ~IsFunction(last.setFn)))
          => (last.outcome = "throw" /\ last.invoked = <<>>)
    /\ ~issued.gen => DOMAIN memoryStore = {}

C4_Witness ==
    /\ Threw("storeCaptcha")
    /\ ~issued.gen
    /\ IsFunction(last.setFn)
    /\ last.error = "No captcha generated yet."

\* a configuration the data model allows: a size of at least 1 and a non-empty
\* active alphabet
ValidConfiguration == options.size >= 1 /\ ActiveAlphabet # {}

InAlphabet(text) ==
    /\ Len(text) = options.size
    /\ \A i \in 1 .. Len(text) : text[i] \in ActiveAlphabet

\* C5: for every valid configuration the answer text of generate() has exactly
\* `size` characters, each a member of the active alphabet.
C5_TextLengthAndAlphabet ==
    ValidConfiguration =>
        /\ Returned("generate") =>
              (InAlphabet(last.value.text.v) /\ captchaText = last.value.text)
        /\ \A c \in DOMAIN calls : calls[c].pc = "loading" => InAlphabet(calls[c].text)

C5_Witness ==
    /\ Returned("generate")
    /\ options.size = 2
    /\ Cardinality(ActiveAlphabet) >= 2
    /\ last.value.text.v[1] # last.value.text.v[2]

\* C6: no character listed in ignoreChars appears in the answer text of any
\* generate() call, for every preset and every ignore list.
C6_NoIgnoredCharacter ==
    /\ Returned("generate") =>
          \A i \in 1 .. Len(last.value.text.v) :
              ~Includes(options.ignoreChars, last.value.text.v[i])
    /\ captchaText # Null =>
          \A i \in 1 .. Len(captchaText.v) :
              ~Includes(options.ignoreChars, captchaText.v[i])

C6_Witness ==
    /\ Returned("generate")
    /\ options.presetType = "all"
    /\ options.ignoreChars = NumberTable
    /\ Len(last.value.text.v) = 2

\* C7: with an empty active alphabet no generate() call ever returns a challenge.
C7_EmptyAlphabetNeverReturns ==
    ActiveAlphabet = {} => ~Returned("generate")

\* C8: generate() lays out only after every font resource has resolved; when a
\* font resource fails to load it fails as a whole, returning no key, text or image.
C8_FontsAllOrNothing ==
    last.op = "generate" =>
        IF \E i \in DOMAIN last.status : last.status[i] # "resolved"
        THEN last.outcome = "throw" /\ last.value = Undefined
        ELSE last.outcome = "return"

C8_Witness ==
    /\ Threw("generate")
    /\ Len(last.status) = 2
    /\ \E i, j \in DOMAIN last.status :
           last.status[i] = "resolved" /\ last.status[j] = "rejected"

\* C9: when the font selected for a character has no glyph for it, generate()
\* fails; no returned image holds a substituted glyph, in straight or messy mode.
C9_MissingGlyphFails ==
    Returned("generate") =>
        \A i \in DOMAIN last.value.data.text :
            /\ ~last.value.data.text[i].glyph.notdef
            /\ last.value.data.text[i].glyph.name = last.value.data.text[i].char

\* C10: every noise path has stroke = the configured noiseColour, fill none and
\* stroke-width = the configured noiseWidth (the caller's options merged over
\* the defaults).
C10_NoiseStrokeAttributes ==
    Returned("generate") =>
        \A i \in DOMAIN last.value.data.noise :
            /\ last.value.data.noise[i].stroke = options.noiseColour
            /\ last.value.data.noise[i].fill = "none"
            /\ last.value.data.noise[i].strokeWidth = options.noiseWidth

\* C11: the image of every generate() holds exactly `size` filled character
\* paths and exactly `noise` noise paths, in straight and in messy mode; with
\* noise = 0 it holds no noise path, and the background rectangle and every
\* character path are still there.
C11_PathCounts ==
    Returned("generate") =>
        LET svg == last.value.data
        IN  /\ Len(svg.text) = options.size
            /\ \A i \in DOMAIN svg.text : svg.text[i].fill = options.fontColour
            /\ Len(svg.noise) = options.noise
            /\ svg.background = options.background

\* C12: in straight mode the scale is at most 1 for every text, canvas width
\* and advance widths: no glyph is drawn larger than the configured font size.
C12_StraightScaleAtMostOne ==
    (Returned("generate") /\ ~options.messy) =>
        /\ LessEq(last.layout.scale, Num(1))
        /\ \A i \in DOMAIN last.value.data.text :
               LessEq(last.value.data.text[i].fontSize, Num(options.fontSize))

C12_Witness ==
    /\ Returned("generate")
    /\ ~options.messy
    /\ Len(last.value.data.text) = 2
    /\ Less(Num(0), last.layout.scale)
    /\ Less(last.layout.scale, Num(1))

\* C13: every noise path starts at x = 0, every control and end point of its
\* segments has its x inside [0, width], and the path ends at x = width, for
\* every number of segments.
C13_NoiseWithinCanvas ==
    Returned("generate") =>
        \A i \in DOMAIN last.value.data.noise :
            LET line == last.value.data.noise[i]
            IN  /\ line.startX = Num(0)
                /\ \A k \in DOMAIN line.curves :
                       /\ LessEq(Num(0), line.curves[k].midX)
                       /\ LessEq(line.curves[k].midX, Num(options.width))
                       /\ LessEq(Num(0), line.curves[k].endX)
                       /\ LessEq(line.curves[k].endX, Num(options.width))
                /\ line.curves[Len(line.curves)].endX = Num(options.width)

\* C14: for an answer text of length 0 the layout emits no character path and
\* its scale is exactly 1, in straight and in messy mode: never negative,
\* infinite or undefined.
C14_EmptyTextScaleOne ==
    (Returned("generate") /\ last.value.text = Str(<<>>)) =>
        /\ last.value.data.text = <<>>
        /\ last.layout.scale = Num(1)

\* C15: in straight mode with at least one character, the total width is the
\* sum of the glyph widths plus gap * (length - 1), the start x is
\* (width - totalWidth * scale) / 2, each glyph is placed at the x of the one
\* before plus its scaled advance plus gap * scale, and the run from the start
\* x to the start x + totalWidth * scale lies inside [5, width - 5].
C15_StraightPlacement ==
    (Returned("generate") /\ ~options.messy /\ Len(last.value.text.v) >= 1) =>
        LET l == last.layout
            paths == last.value.data.text
            run == Mul(l.totalWidth, l.scale)
        IN  /\ l.totalWidth = Plus(Sum(l.widths), Num(Gap * (Len(paths) - 1)))
            /\ l.xStart = Over(Minus(Num(options.width), run), Num(2))
            /\ paths[1].x = l.xStart
            /\ \A i \in 2 .. Len(paths) :
                   paths[i].x = Plus(paths[i - 1].x,
                                     Plus(l.advances[i - 1], Mul(Num(Gap), l.scale)))
            /\ LessEq(Over(Num(Margin), Num(2)), l.xStart)
            /\ LessEq(Plus(l.xStart, run),
                      Minus(Num(options.width), Over(Num(Margin), Num(2))))

C15_Witness ==
    /\ Returned("generate")
    /\ ~options.messy
    /\ Len(last.value.data.text) = 2
    /\ last.value.data.text[1].char # last.value.data.text[2].char
    /\ Less(last.layout.scale, Num(1))
    /\ Less(Num(0), last.layout.xStart)
    /\ Less(last.value.data.text[1].x, last.value.data.text[2].x)

\* C16: in messy mode the font of an emitted glyph is drawn again, independently
\* of the font its width was measured with: with two or more fonts every pair
\* (measurement font, emission font) can come out for every character, and the
\* advance of an emitted glyph is computed from its emission font.
C16_EmissionFontResampled ==
    /\ (Returned("generate") /\ options.messy) =>
          \A i \in DOMAIN last.value.data.text :
              LET path == last.value.data.text[i]
              IN  /\ \E f \in DOMAIN options.fontFiles :
                         path.glyph = charToGlyph(options.fontFiles[f], path.char)
                  /\ last.layout.advances[i]
                       = Mul(Mul(Num(advanceWidth(path.glyph)),
                                 Over(Num(options.fontSize), Num(unitsPerEm(path.glyph.font)))),
                             last.layout.scale)
    /\ \A c \in DOMAIN calls :
          (calls[c].pc = "loading" /\ options.messy) =>
              \A m, e \in [1 .. Len(calls[c].text) -> DOMAIN options.fontFiles] :
                  \E measure, emit \in FontPicks(calls[c].text) :
                      \A i \in 1 .. Len(calls[c].text) :
                          /\ options.fontFiles[measure[i] + 1] = options.fontFiles[m[i]]
                          /\ EmissionFont(measure, emit, i) = options.fontFiles[e[i]]

C16_Witness ==
    /\ Returned("generate")
    /\ options.messy
    /\ Len(options.fontFiles) = 2
    /\ \E i \in DOMAIN last.value.data.text :
           /\ last.layout.measured[i] # last.value.data.text[i].glyph.font
           /\ last.layout.advances[i] # Mul(last.layout.widths[i], last.layout.scale)

\* C17 (as claimed): a generate() that fails on a font load leaves the stored
\* key and answer as they were, and the storeCaptcha that follows it stores the
\* challenge of the last generate() that returned, or fails with "No captcha
\* generated yet." when none has.
C17_FailedGenerateKeepsChallenge ==
    [][ /\ (last' # last /\ last'.op = "generate" /\ last'.outcome = "throw")
            => UNCHANGED <<captchaKey, captchaText>>
        /\ (Threw("generate") /\ last'.op = "storeCaptcha" /\ IsFunction(last'.setFn))
            => IF issued.gen
               THEN /\ last'.outcome = "return"
                    /\ last'.invoked
                         = << <<Namespaced(issued.key.v), issued.text, last'.ttl>> >>
               ELSE /\ last'.outcome = "throw"
                    /\ last'.error = "No captcha generated yet."
                    /\ last'.invoked = <<>> ]_vars

\* C18: under every interleaving of overlapping generate() calls on one
\* instance, the stored key and answer are both unset, or both those of one
\* generate() call, the one that completed last.
C18_KeyAndAnswerFromOneCall ==
    /\ IF issued.gen
       THEN captchaKey = issued.key /\ captchaText = issued.text
       ELSE captchaKey = Null /\ captchaText = Null
    /\ Returned("generate") =>
          (captchaKey = last.value.key /\ captchaText = last.value.text)

C18_Witness ==
    /\ Returned("generate")
    /\ last.overtaken
    /\ \E c \in DOMAIN calls : calls[c].pc = "loading" /\ calls[c].text # last.value.text.v
    /\ captchaKey = last.value.key
    /\ captchaText = last.value.text

\* C19: verifyCaptcha changes neither the key and answer of the instance nor
\* the store, and its result is made of (userInput, key, fetched value) alone:
\* truthy exactly when the value fetched under 'captcha:' + key is truthy and
\* equals userInput, whatever the instance holds.
C19_VerifyFrame ==
    [][ (last' # last /\ last'.op = "verifyCaptcha") =>
            /\ UNCHANGED <<captchaKey, captchaText, memoryStore>>
            /\ IsFunction(last'.getFn) =>
                  /\ last'.outcome = "return"
                  /\ last'.fetched
                       = Fetch(last'.getFn, memoryStore, Namespaced(last'.key.v))
                  /\ Truthy(last'.value)
                       = (Truthy(last'.fetched) /\ last'.fetched = last'.userInput) ]_vars

C19_Witness ==
    /\ Returned("verifyCaptcha")
    /\ Truthy(last.value)
    /\ captchaKey # last.key
    /\ MapGet(memoryStore, Namespaced(last.key.v)) = last.userInput

\* C20 (as claimed): in messy mode with at least one character the start x is
\* at least 0 and the x after the advance of the last character is at most the
\* canvas width, for every number of fonts and every choice of fonts in the
\* two passes.
C20_MessyWithinCanvas ==
    (Returned("generate") /\ options.messy /\ Len(last.value.text.v) >= 1) =>
        /\ LessEq(Num(0), last.layout.xStart)
        /\ LessEq(last.layout.xEnd, Num(options.width))

\* C20 (amended): the start x is at least 0 for every choice of fonts; the x
\* after the advance of the last character is at most the canvas width when
\* every character is emitted with the font it was measured with, as it is
\* with one font.
C20_MessyWithinCanvasSameFonts ==
    (Returned("generate") /\ options.messy /\ Len(last.value.text.v) >= 1) =>
        /\ LessEq(Num(0), last.layout.xStart)
        /\ (\A i \in DOMAIN last.value.data.text :
                last.value.data.text[i].glyph.font = last.layout.measured[i])
              => LessEq(last.layout.xEnd, Num(options.width))

C20_Witness ==
    /\ Returned("generate")
    /\ options.messy
    /\ Len(options.fontFiles) = 2
    /\ Len(last.value.data.text) = 2
    /\ \A i \in DOMAIN last.value.data.text :
           last.value.data.text[i].glyph.font = last.layout.measured[i]
    /\ last.layout.measured[1] # last.layout.measured[2]
    /\ Less(last.layout.scale, Num(1))
    /\ last.layout.xEnd = Num(options.width)

====
